---- MODULE Spec2Model ----
(***************************************************************************)
(* Model of sgx_tstd's backtrace printer                                   *)
(* (src/sgx/sgx_tstd/src/sys/backtrace/printing/mod.rs): BacktraceFmt,     *)
(* the per-frame BacktraceFrameFmt, and the text they write to the sink.   *)
(* The sink is a sequence of one-character strings.                        *)
(***************************************************************************)
EXTENDS Integers, Sequences, FiniteSets, TLC

\* ------------------------------------------------------------------ bounds
MaxFrames  == 3   \* frame scopes opened on one formatter
MaxSymbols == 2   \* render calls made on one formatter
MaxFails   == 1   \* render calls during which the sink refuses a write
MaxPartial == 1   \* characters a refused write may already have passed on
MaxOps     == 4   \* calls of a recorded run
CallFrames == 1   \* frame scopes opened before a call with any arguments
CallSymbols == 1  \* render calls made before a call with any arguments
LeadFrames == 1   \* frame scopes opened on a formatter with a high frame_index

\* ------------------------------------------------------- Option<T>, text
None == <<>>
Some(v) == <<v>>
IsSome(o) == Len(o) = 1
Unwrap(o) == o[1]
Opt(S) == {None} \cup {Some(v) : v \in S}

Min(a, b) == IF a < b THEN a ELSE b

Spaces(n) == [i \in 1..n |-> " "]

RECURSIVE Flatten(_)
Flatten(ss) == IF ss = <<>> THEN <<>> ELSE Head(ss) \o Flatten(Tail(ss))

DecDigits == <<"0", "1", "2", "3", "4", "5", "6", "7", "8", "9">>
HexDigits == DecDigits \o <<"a", "b", "c", "d", "e", "f">>

\* Display of an unsigned integer: "{}"
RECURSIVE Decimal(_)
Decimal(n) == IF n < 10 THEN <<DecDigits[n + 1]>>
              ELSE Decimal(n \div 10) \o <<DecDigits[(n % 10) + 1]>>

\* LowerHex of an unsigned integer, without prefix
RECURSIVE LowerHex(_)
LowerHex(n) == IF n < 16 THEN <<HexDigits[n + 1]>>
               ELSE LowerHex(n \div 16) \o <<HexDigits[(n % 16) + 1]>>

\* A width that cuts longer text down to its last characters.
PadLeftTruncating(s, width) ==
    IF Len(s) >= width THEN SubSeq(s, Len(s) - width + 1, Len(s))
    ELSE Spaces(width - Len(s)) \o s

\* A width without a fill or zero flag: numbers and the empty string are
\* padded with spaces on the left; longer text is written whole.
PadLeft(s, width) == IF Len(s) >= width THEN s ELSE Spaces(width - Len(s)) \o s

\* ------------------------------------------------------------- constants
PointerSize == 8
HEX_WIDTH == 2 + 2 * PointerSize

PrintFmt == {"Short", "Full", "__Nonexhaustive"}

NULL == 0

\* A pointer written with zeros between "0x" and its digits.
PointerDebugZeroPadded(ip, width) ==
    <<"0", "x">> \o [i \in 1..(width - 2 - Len(LowerHex(ip))) |-> "0"] \o LowerHex(ip)

\* "{:1$?}" of a raw pointer: Debug of a pointer is Pointer, which sets the
\* alternate flag ("0x" prefix) and, the "#" flag not being given, neither
\* zero padding nor a width of its own: the given width pads with spaces.
PointerDebug(ip, width) == PadLeft(<<"0", "x">> \o LowerHex(ip), width)

\* --------------------------------------------------- external collaborators
\* SymbolName: a name with a terse ("{:#}") and a verbose ("{}") rendering.
SymbolNames == { [terse |-> <<"f">>, verbose |-> <<"f", ":", ":", "h", "1">>] }
NameTerse(name) == name.terse
NameVerbose(name) == name.verbose

\* BytesOrWideString values, and the caller's print_path callback, which
\* writes the text of the path.
Paths == { <<"a", ".", "r", "s">> }
print_path(file) == file

\* -------------------------------------------------------------- rendering
\* One write!/write_str/callback step: what it is and the text it passes on.
W(kind, text) == [kind |-> kind, text |-> text]

\* A location line that never shows the column.
ColumnWritesNever(colno) == <<>>

\* "Add column number, if available."
ColumnWrites(colno) ==
    IF IsSome(colno) THEN <<W("col", <<":">> \o Decimal(Unwrap(colno)))>> ELSE <<>>

\* A location line padded in every style but Short.
print_filelineUnlessShort(format, file, line, colno) ==
    (IF format # "Short" THEN <<W("filepad", Spaces(HEX_WIDTH))>> ELSE <<>>)
    \o <<W("at", Spaces(13) \o <<"a", "t", " ">>)>>
    \o <<W("path", print_path(file))>>
    \o <<W("line", <<":">> \o Decimal(line))>>
    \o ColumnWrites(colno)
    \o <<W("eol", <<"\n">>)>>

print_fileline(format, file, line, colno) ==
    (IF format = "Full" THEN <<W("filepad", Spaces(HEX_WIDTH))>> ELSE <<>>)
    \o <<W("at", Spaces(13) \o <<"a", "t", " ">>)>>
    \o <<W("path", print_path(file))>>
    \o <<W("line", <<":">> \o Decimal(line))>>
    \o ColumnWrites(colno)
    \o <<W("eol", <<"\n">>)>>

\* A continuation lead padded by the width of the address alone.
LeadWritesNarrowPad(format, frame_index, symbol_index, frame_ip) ==
    IF symbol_index = 0
    THEN <<W("label", PadLeft(Decimal(frame_index), 4) \o <<":", " ">>)>>
         \o (IF format = "Full"
             THEN <<W("addr", PointerDebug(frame_ip, HEX_WIDTH) \o <<" ", "-", " ">>)>>
             ELSE <<>>)
    ELSE <<W("indent", Spaces(6))>>
         \o (IF format = "Full"
             THEN <<W("addrpad", PadLeft(<<>>, HEX_WIDTH))>>
             ELSE <<>>)

LeadWrites(format, frame_index, symbol_index, frame_ip) ==
    IF symbol_index = 0
    THEN <<W("label", PadLeft(Decimal(frame_index), 4) \o <<":", " ">>)>>
         \o (IF format = "Full"
             THEN <<W("addr", PointerDebug(frame_ip, HEX_WIDTH) \o <<" ", "-", " ">>)>>
             ELSE <<>>)
    ELSE <<W("indent", Spaces(6))>>
         \o (IF format = "Full"
             THEN <<W("addrpad", PadLeft(<<>>, HEX_WIDTH + 3))>>
             ELSE <<>>)

\* The two renderings of the name taken for each other.
NameWriteSwapped(format, symbol_name) ==
    IF IsSome(symbol_name) /\ format = "Short"
    THEN W("name", NameVerbose(Unwrap(symbol_name)))
    ELSE IF IsSome(symbol_name) /\ format = "Full"
    THEN W("name", NameTerse(Unwrap(symbol_name)))
    ELSE W("name", <<"<", "u", "n", "k", "n", "o", "w", "n", ">">>)

NameWrite(format, symbol_name) ==
    IF IsSome(symbol_name) /\ format = "Short"
    THEN W("name", NameTerse(Unwrap(symbol_name)))
    ELSE IF IsSome(symbol_name) /\ format = "Full"
    THEN W("name", NameVerbose(Unwrap(symbol_name)))
    ELSE W("name", <<"<", "u", "n", "k", "n", "o", "w", "n", ">">>)

\* A null-frame rule that forgets the style.
NullFrameRuleAnyStyle(format, frame_ip) == frame_ip = NULL

\* "No need to print null frames"
NullFrameRule(format, frame_ip) == format = "Short" /\ frame_ip = NULL

\* An entry whose name line is ended only by a location line.
print_raw_genericBareName(format, frame_index, symbol_index, frame_ip, symbol_name, filename, lineno, colno) ==
    IF NullFrameRule(format, frame_ip)
    THEN <<>>
    ELSE LeadWrites(format, frame_index, symbol_index, frame_ip)
         \o <<NameWrite(format, symbol_name)>>
         \o (IF IsSome(filename) /\ IsSome(lineno)
             THEN <<W("nl", <<"\n">>)>>
                  \o print_fileline(format, Unwrap(filename), Unwrap(lineno), colno)
             ELSE <<>>)

\* The writes print_raw_generic makes, in order, when none of them fails.
print_raw_generic(format, frame_index, symbol_index, frame_ip, symbol_name, filename, lineno, colno) ==
    IF NullFrameRule(format, frame_ip)
    THEN <<>>
    ELSE LeadWrites(format, frame_index, symbol_index, frame_ip)
         \o <<NameWrite(format, symbol_name)>>
         \o <<W("nl", <<"\n">>)>>
         \o (IF IsSome(filename) /\ IsSome(lineno)
             THEN print_fileline(format, Unwrap(filename), Unwrap(lineno), colno)
             ELSE <<>>)

\* Writes whose errors are dropped: the refused write is skipped, the ones
\* after it are made and the call returns Ok.
WriteAllSwallowing(sink, writes, failAt, partial) ==
    [fmt |-> sink \o Flatten([i \in 1..Len(writes) |->
                                 IF i = failAt THEN <<>> ELSE writes[i].text]),
     done |-> Len(writes), res |-> "Ok"]

\* The sink under a run of writes joined by "?": failAt = 0, no write fails;
\* failAt = k, the k-th write fails after passing on `partial` characters,
\* and the writes after it are not made.
WriteAll(sink, writes, failAt, partial) ==
    IF failAt = 0
    THEN [fmt |-> sink \o Flatten([i \in 1..Len(writes) |-> writes[i].text]),
          done |-> Len(writes), res |-> "Ok"]
    ELSE [fmt |-> sink \o Flatten([i \in 1..(failAt - 1) |-> writes[i].text])
                       \o SubSeq(writes[failAt].text, 1,
                                 Min(partial, Len(writes[failAt].text))),
          done |-> failAt - 1, res |-> "Err"]

\* ------------------------------------------------------------- input sets
Ips == {NULL, 4096}
Linenos == {10}
Colnos == {5}
\* Frame and Symbol as their accessors give them (ip(); name(),
\* filename_raw(), lineno(), colno()).
Frames == [ip : Ips]
Symbols == [name : Opt(SymbolNames), filename : Opt(Paths),
            lineno : Opt(Linenos), colno : Opt(Colnos)]
\* The two symbols of a run of many calls: nothing known, everything known.
PlainSymbols == {sym \in Symbols :
                    \/ sym = [name |-> None, filename |-> None,
                              lineno |-> None, colno |-> None]
                    \/ /\ IsSome(sym.name) /\ IsSome(sym.filename)
                       /\ IsSome(sym.lineno) /\ IsSome(sym.colno)}
\* The symbol of the example scenarios: the name "main", which reads the
\* same in both renderings, and no file.
MainName == [terse |-> <<"m", "a", "i", "n">>, verbose |-> <<"m", "a", "i", "n">>]
ExampleSymbols == {[name |-> Some(MainName), filename |-> None,
                    lineno |-> None, colno |-> None]}
\* The frame counts a formatter may have come to: around each number of
\* digits up to six.
StartIndices == {0, 9, 10, 99, 100, 999, 1000, 9999, 10000, 10001, 99999, 100000}
\* The writes the sink may refuse in a run of many calls: the first one (the
\* label or the indent) or the third one (after a whole lead in Full style).
PlainFailAts == {1, 3}

\* ------------------------------------------------------------------ state
VARIABLES
    fmt,            \* BacktraceFmt.fmt: the text the sink holds
    frame_index,    \* BacktraceFmt.frame_index
    format,         \* BacktraceFmt.format
    open,           \* a BacktraceFrameFmt borrows the formatter
    symbol_index,   \* BacktraceFrameFmt.symbol_index of the open scope
    budget,         \* what the caller may still do within the bounds
    opened,         \* history: frame() calls on this formatter
    closed,         \* history: scopes dropped on this formatter
    scope,          \* history of the open scope: frame_index when it was opened,
                    \* whether a render call of it returned Err, its render calls
                    \* that wrote a whole entry, its render calls that returned Ok,
                    \* the length of the sink when it was opened
    prevFailed,     \* history: Some(index of the scope dropped last) if it failed
    labels,         \* history: <<scope number, text in the sink>> of each label written
    last,           \* history: the render call just made, or None
    hook,           \* history: the add_context, finish or frame call just made, or None
    earlier,        \* history: symbol_index of the scope dropped last, 0 if none
    clean,          \* history: every render call so far returned Ok
    script,         \* recorded run: the calls made on the first formatter
    run,            \* recorded run: 1, first formatter; 2, the fresh one
    pos,            \* recorded run: the next call of the script to repeat
    first           \* recorded run: what the first formatter ended with

vars == <<fmt, frame_index, format, open, symbol_index, budget, opened, closed,
          scope, prevFailed, labels, last, hook, earlier, clean, script, run, pos,
          first>>

\* A run of many calls over PlainSymbols.
SeqBudget == [frames |-> MaxFrames, symbols |-> MaxSymbols, fails |-> MaxFails,
              ops |-> 0, wide |-> FALSE, record |-> FALSE, stop |-> FALSE,
              example |-> FALSE]
\* One call of any of the three methods with any arguments and any write
\* refused, after a few print_raw_with_column calls over PlainSymbols; it is
\* the last call explored.
CallBudget == [frames |-> CallFrames, symbols |-> CallSymbols, fails |-> 0,
               ops |-> 0, wide |-> TRUE, record |-> FALSE, stop |-> FALSE,
               example |-> FALSE]
\* A run of many calls, recorded and then repeated on a fresh formatter.
ReplayBudget == [frames |-> MaxFrames, symbols |-> MaxSymbols, fails |-> MaxFails,
                 ops |-> MaxOps, wide |-> FALSE, record |-> TRUE, stop |-> FALSE,
                 example |-> FALSE]
\* A few calls over PlainSymbols on a formatter that has had many scopes.
LeadBudget == [frames |-> LeadFrames, symbols |-> MaxSymbols, fails |-> 0,
               ops |-> 0, wide |-> FALSE, record |-> FALSE, stop |-> FALSE,
               example |-> FALSE]
\* A run of many calls over the symbol of the example scenarios.
ExampleBudget == [frames |-> MaxFrames, symbols |-> MaxSymbols, fails |-> MaxFails,
                  ops |-> 0, wide |-> FALSE, record |-> FALSE, stop |-> FALSE,
                  example |-> TRUE]

\* ---------------------------------------------------------------- actions
\* A formatter that takes up the count of the one before it.
NewFrameIndexKept(previous) == previous

\* frame_index as BacktraceFmt::new sets it; `previous` is the index the
\* formatter used before it ended with.
NewFrameIndex(previous) == 0

\* BacktraceFmt::new
new(sink, style, previous) ==
    [fmt |-> sink, frame_index |-> NewFrameIndex(previous), format |-> style]

NoScope == [index |-> 0, failed |-> FALSE, rendered |-> 0, succeeded |-> 0, at |-> 0]

InitWith(b) ==
    /\ \E style \in PrintFmt :
        LET bf == new(<<>>, style, 0)
        IN  fmt = bf.fmt /\ frame_index = bf.frame_index /\ format = bf.format
    /\ open = FALSE
    /\ symbol_index = 0
    /\ budget = b
    /\ opened = 0
    /\ closed = 0
    /\ scope = NoScope
    /\ prevFailed = None
    /\ labels = <<>>
    /\ last = None
    /\ hook = None
    /\ earlier = 0
    /\ clean = TRUE
    /\ script = <<>>
    /\ run = 1
    /\ pos = 1
    /\ first = None

Init == InitWith(SeqBudget)
InitCall == InitWith(CallBudget)
InitReplay == InitWith(ReplayBudget)
InitExample == InitWith(ExampleBudget)

\* A formatter on which `start` scopes were opened and dropped and nothing
\* was rendered: the sink is empty, frame_index is start.
InitLead ==
    \E style \in PrintFmt, start \in StartIndices :
        /\ fmt = <<>>
        /\ frame_index = start
        /\ format = style
        /\ open = FALSE
        /\ symbol_index = 0
        /\ budget = LeadBudget
        /\ opened = start
        /\ closed = start
        /\ scope = NoScope
        /\ prevFailed = None
        /\ labels = <<>>
        /\ last = None
        /\ hook = None
        /\ earlier = 0
        /\ clean = TRUE
        /\ script = <<>>
        /\ run = 1
        /\ pos = 1
        /\ first = None

\* The call `op` is the caller's next one: any call while the first formatter
\* runs (recorded if the run is), the script's next call on the second.
Calls(op) ==
    IF run = 1
    THEN /\ ~budget.stop
         /\ budget.record => Len(script) < budget.ops
         /\ script' = (IF budget.record THEN Append(script, op) ELSE script)
         /\ pos' = pos
    ELSE /\ pos <= Len(script)
         /\ script[pos] = op
         /\ script' = script
         /\ pos' = pos + 1

\* The call made right before add_context or finish, if it was one of
\* add_context and finish.
Before(h) == IF IsSome(h) /\ Unwrap(h).op # "frame" THEN Unwrap(h).op ELSE "other"

\* A hook that writes a marker to the sink.
HookResultMarker(sink) == [fmt |-> sink \o <<"\n">>, res |-> "Ok"]

\* The body of add_context and of finish, "Ok(())": the sink afterwards and
\* the result.
HookResult(sink) == [fmt |-> sink, res |-> "Ok"]

\* BacktraceFmt::add_context: Ok(()). No frame scope borrows the formatter
\* while it is called.
add_context ==
    /\ ~open
    /\ Calls([op |-> "add_context"])
    /\ LET r == HookResult(fmt)
       IN  /\ fmt' = r.fmt
           /\ hook' = Some([op |-> "add_context", res |-> r.res, pre_fmt |-> fmt,
                            pre_frame_index |-> frame_index, after |-> Before(hook)])
    /\ last' = None
    /\ UNCHANGED <<frame_index, format, open, symbol_index, budget, opened, closed,
                   scope, prevFailed, labels, earlier, clean, run, first>>

\* BacktraceFmt::finish: Ok(())
finish ==
    /\ ~open
    /\ Calls([op |-> "finish"])
    /\ LET r == HookResult(fmt)
       IN  /\ fmt' = r.fmt
           /\ hook' = Some([op |-> "finish", res |-> r.res, pre_fmt |-> fmt,
                            pre_frame_index |-> frame_index, after |-> Before(hook)])
    /\ last' = None
    /\ UNCHANGED <<frame_index, format, open, symbol_index, budget, opened, closed,
                   scope, prevFailed, labels, earlier, clean, run, first>>

\* symbol_index as BacktraceFmt::frame sets it; `previous` is the count the
\* scope dropped last ended with.
FrameSymbolIndex(previous) == 0

\* BacktraceFmt::frame
frame ==
    /\ ~open
    /\ budget.frames > 0
    /\ Calls([op |-> "frame"])
    /\ open' = TRUE
    /\ symbol_index' = FrameSymbolIndex(earlier)
    /\ hook' = Some([op |-> "frame", res |-> "Ok", pre_fmt |-> fmt,
                     pre_frame_index |-> frame_index, after |-> "other"])
    /\ budget' = [budget EXCEPT !.frames = @ - 1]
    /\ opened' = opened + 1
    /\ scope' = [NoScope EXCEPT !.index = frame_index, !.at = Len(fmt)]
    /\ last' = None
    /\ UNCHANGED <<fmt, frame_index, format, closed, prevFailed, labels, earlier,
                   clean, run, first>>

\* A drop that advances only after a scope without errors.
DropIndexUnlessFailed(index, failed) == IF failed THEN index ELSE index + 1

\* What dropping the scope makes of frame_index; `failed`: a render call of
\* the scope returned Err.
DropIndex(index, failed) == index + 1

\* Drop for BacktraceFrameFmt
drop ==
    /\ open
    /\ Calls([op |-> "drop"])
    /\ frame_index' = DropIndex(frame_index, scope.failed)
    /\ open' = FALSE
    /\ symbol_index' = 0
    /\ closed' = closed + 1
    /\ prevFailed' = (IF scope.failed THEN Some(frame_index) ELSE None)
    /\ scope' = NoScope
    /\ last' = None
    /\ hook' = None
    /\ earlier' = symbol_index
    /\ UNCHANGED <<fmt, format, budget, opened, labels, clean, run, first>>

\* A render call that advances the frame counter with the symbol counter,
\* and one that advances it whatever its result.
RenderFrameIndexPerSymbol(index, res) == IF res = "Ok" THEN index + 1 ELSE index
RenderFrameIndexPerCall(index, res) == index + 1

\* A render call that advances the symbol counter whatever its result.
RenderSymbolIndexAlways(index, res) == index + 1

\* What a render call makes of the two counters, given its result.
RenderSymbolIndex(index, res) == IF res = "Ok" THEN index + 1 ELSE index
RenderFrameIndex(index, res) == index

\* The arguments a render call may take here, and the writes of it the sink
\* may refuse (0: none), each with the characters the refused write passes on.
PlainHere == IF budget.example THEN ExampleSymbols ELSE PlainSymbols
SymbolsHere == IF budget.wide THEN Symbols ELSE PlainHere
RefusalsHere(writes) ==
    IF budget.wide
    THEN {[failAt |-> 0, partial |-> 0]}
         \cup [failAt : 1..Len(writes), partial : 0..MaxPartial]
    ELSE {[failAt |-> 0, partial |-> 0]}
         \cup {[failAt |-> k, partial |-> 0] :
                  k \in {j \in PlainFailAts : j <= Len(writes) /\ budget.fails > 0}}

\* BacktraceFrameFmt::print_raw_with_column
Render(via, frame_ip, symbol_name, filename, lineno, colno) ==
    LET writes == print_raw_generic(format, frame_index, symbol_index,
                                    frame_ip, symbol_name, filename, lineno, colno)
        plainArgs == \E sym \in PlainHere :
                        /\ symbol_name = sym.name
                        /\ filename = sym.filename
                        /\ lineno = sym.lineno
    IN  /\ open
        /\ ~budget.stop
        /\ budget.symbols > 0 \/ budget.wide
        /\ \E f \in RefusalsHere(writes) :
            LET r == WriteAll(fmt, writes, f.failAt, f.partial)
                plain == /\ budget.symbols > 0
                         /\ plainArgs
                         /\ budget.wide => via = "print_raw_with_column"
                         /\ f.failAt = 0 \/ (budget.fails > 0 /\ f.partial = 0
                                              /\ f.failAt \in PlainFailAts)
            IN  /\ plain \/ budget.wide
                /\ Calls([op |-> "render", frame_ip |-> frame_ip,
                          symbol_name |-> symbol_name, filename |-> filename,
                          lineno |-> lineno, colno |-> colno, refusal |-> f])
                /\ fmt' = r.fmt
                /\ symbol_index' = RenderSymbolIndex(symbol_index, r.res)
                /\ frame_index' = RenderFrameIndex(frame_index, r.res)
                /\ budget' = (IF plain
                              THEN [budget EXCEPT !.symbols = @ - 1,
                                       !.fails = IF f.failAt = 0 THEN @ ELSE @ - 1]
                              ELSE [budget EXCEPT !.stop = TRUE])
                /\ scope' = [scope EXCEPT
                        !.failed = @ \/ r.res = "Err",
                        !.rendered = IF writes # <<>> /\ r.res = "Ok" THEN @ + 1 ELSE @,
                        !.succeeded = IF r.res = "Ok" THEN @ + 1 ELSE @]
                /\ labels' = (IF r.done >= 1 /\ writes[1].kind = "label"
                              THEN Append(labels,
                                     <<opened - 1,
                                       SubSeq(r.fmt, Len(fmt) + 1,
                                              Len(fmt) + Len(writes[1].text))>>)
                              ELSE labels)
                /\ last' = Some([frame_ip |-> frame_ip, symbol_name |-> symbol_name,
                                 filename |-> filename, lineno |-> lineno,
                                 colno |-> colno, failAt |-> f.failAt,
                                 partial |-> f.partial, via |-> via,
                                 pre_fmt |-> fmt, pre_symbol_index |-> symbol_index,
                                 pre_frame_index |-> frame_index,
                                 pre_scope |-> scope,
                                 kinds |-> [i \in 1..r.done |-> writes[i].kind],
                                 res |-> r.res])
                /\ clean' = (clean /\ r.res = "Ok")
        /\ hook' = None
        /\ UNCHANGED <<format, open, opened, closed, prevFailed, earlier, run, first>>

print_raw_with_column ==
    \E ip \in Ips, sym \in SymbolsHere :
        Render("print_raw_with_column", ip, sym.name, sym.filename, sym.lineno, sym.colno)

\* A print_raw that hands the line number on as the column too.
print_raw_argsLineAsColumn(frame_ip, symbol_name, filename, lineno) ==
    <<frame_ip, symbol_name, filename, lineno, lineno>>

\* The arguments print_raw hands to print_raw_with_column.
print_raw_args(frame_ip, symbol_name, filename, lineno) ==
    <<frame_ip, symbol_name, filename, lineno, None>>

\* BacktraceFrameFmt::print_raw
print_raw ==
    \E ip \in Ips, given \in {<<sym.name, sym.filename, sym.lineno>> : sym \in SymbolsHere} :
        LET a == print_raw_args(ip, given[1], given[2], given[3])
        IN  Render("print_raw", a[1], a[2], a[3], a[4], a[5])

\* BacktraceFrameFmt::symbol
symbol ==
    \E fr \in Frames, sym \in SymbolsHere :
        Render("symbol", fr.ip, sym.name, sym.filename, sym.lineno, sym.colno)

\* The caller formats the same data again: BacktraceFmt::new on an empty
\* sink with the same style, once the first formatter is done with.
renew ==
    /\ run = 1
    /\ budget.record
    /\ ~open
    /\ LET bf == new(<<>>, format, frame_index)
       IN  fmt' = bf.fmt /\ frame_index' = bf.frame_index /\ format' = bf.format
    /\ first' = Some([fmt |-> fmt, frame_index |-> frame_index])
    /\ run' = 2
    /\ pos' = 1
    /\ budget' = ReplayBudget
    /\ opened' = 0
    /\ closed' = 0
    /\ prevFailed' = None
    /\ labels' = <<>>
    /\ last' = None
    /\ hook' = None
    /\ earlier' = 0
    /\ clean' = TRUE
    /\ UNCHANGED <<open, symbol_index, scope, script>>

Next ==
    \/ add_context
    \/ finish
    \/ frame
    \/ drop
    \/ print_raw_with_column
    \/ print_raw
    \/ symbol

NextReplay == Next \/ renew

\* Runs of many calls over the plain symbols.
Spec == Init /\ [][Next]_vars
\* One call with any arguments and any refused write.
CallSpec == InitCall /\ [][Next]_vars
\* A recorded run, repeated on a fresh formatter.
ReplaySpec == InitReplay /\ [][NextReplay]_vars
\* Runs of many calls over the symbol of the example scenarios.
ExampleSpec == InitExample /\ [][Next]_vars
\* A few calls on a formatter that has had many scopes.
LeadSpec == InitLead /\ [][Next]_vars

\* ----------------------------------------------------------------- claims
\* The render call just made, and the text it added to the sink.
L == Unwrap(last)
Added == SubSeq(fmt, Len(L.pre_fmt) + 1, Len(fmt))
\* The label "{:4}: " of a frame index below 10, and the text from the i-th
\* character on.
LabelOf(k) == <<" ", " ", " ", DecDigits[k + 1], ":", " ">>
From(text, i) == SubSeq(text, i, Len(text))
Starts(text, prefix) ==
    Len(text) >= Len(prefix) /\ SubSeq(text, 1, Len(prefix)) = prefix

\* C1: frame_index is the number of scopes opened and then dropped, whatever
\* was rendered in them and whether a render call failed: only a drop
\* advances it, by one, and the scope opened after a scope with a failed
\* call has the index after that scope's.
C1_FrameIndexCountsDrops ==
    /\ frame_index = closed
    /\ opened = closed + (IF open THEN 1 ELSE 0)
    /\ open /\ IsSome(prevFailed) => frame_index = Unwrap(prevFailed) + 1

\* A scope with a failed call was dropped, the next one is open and a call
\* on it wrote its label.
C1_Witness ==
    /\ open
    /\ prevFailed = Some(0)
    /\ IsSome(last)
    /\ L.res = "Ok"
    /\ labels # <<>>
    /\ labels[Len(labels)] = <<1, LabelOf(1)>>

\* C2: every label written in the k-th scope opened (k = 0, 1, 2, ...) shows
\* k, however many symbols the scopes before it rendered.
C2_LabelsNumberFrames ==
    \A i \in DOMAIN labels :
        /\ labels[i][2] = LabelOf(labels[i][1])
        /\ i > 1 => labels[i - 1][1] <= labels[i][1]

\* Labels 0 and 2 were written: the scope between them rendered nothing.
C2_Witness ==
    /\ Len(labels) = 2
    /\ labels[1] = <<0, LabelOf(0)>>
    /\ labels[2] = <<2, LabelOf(2)>>
    /\ IsSome(last)
    /\ Starts(Added, LabelOf(2))

\* C10: a render call leaves frame_index as it was: while a scope is open
\* frame_index is what it was when the scope was opened, 0 throughout the
\* first scope however many symbols it renders, and 1 once that scope is
\* dropped.
C10_RenderKeepsFrameIndex ==
    /\ IsSome(last) => frame_index = L.pre_frame_index
    /\ open => frame_index = scope.index
    /\ opened = 1 => frame_index = (IF open THEN 0 ELSE 1)

\* Two symbols were rendered in the first scope, the second under the
\* continuation indent, and frame_index is still 0.
C10_Witness ==
    /\ open
    /\ opened = 1
    /\ symbol_index = 2
    /\ frame_index = 0
    /\ labels = <<<<0, LabelOf(0)>>>>
    /\ IsSome(last)
    /\ Starts(Added, Spaces(6))

\* The call just made was suppressed by the null-frame rule.
Suppressed == format = "Short" /\ L.frame_ip = NULL
\* The length of the lead of an entry (label and address, or indent and
\* padding) for frame indices below 10000.
LeadLen == IF format = "Full" THEN 6 + HEX_WIDTH + 3 ELSE 6
\* The name as the claims expect it.
ExpectedName ==
    IF IsSome(L.symbol_name) /\ format = "Short" THEN Unwrap(L.symbol_name).terse
    ELSE IF IsSome(L.symbol_name) /\ format = "Full" THEN Unwrap(L.symbol_name).verbose
    ELSE <<"<", "u", "n", "k", "n", "o", "w", "n", ">">>
\* The location line as the claims expect it.
ExpectedLocation ==
    IF IsSome(L.filename) /\ IsSome(L.lineno)
    THEN (IF format = "Full" THEN Spaces(HEX_WIDTH) ELSE <<>>)
         \o Spaces(13) \o <<"a", "t", " ">> \o Unwrap(L.filename)
         \o <<":">> \o Decimal(Unwrap(L.lineno))
         \o (IF IsSome(L.colno) THEN <<":">> \o Decimal(Unwrap(L.colno)) ELSE <<>>)
         \o <<"\n">>
    ELSE <<>>

\* C3 as stated: the first entry a scope renders starts with the numeric
\* label, every later entry of the scope with the continuation indent.
C3_FirstRenderedHasLabel ==
    IsSome(last) /\ L.kinds # <<>> =>
        IF L.pre_scope.rendered = 0
        THEN Starts(Added, LabelOf(L.pre_frame_index))
        ELSE Starts(Added, Spaces(6))

\* C3, amended: a call that is not suppressed starts with the numeric label
\* if no earlier call on the scope returned Ok, a suppressed call being one
\* that returned Ok, and with the continuation indent, never the label,
\* otherwise.
C3_LabelIffNoEarlierSuccess ==
    IsSome(last) /\ L.kinds # <<>> =>
        /\ L.pre_symbol_index = L.pre_scope.succeeded
        /\ IF L.pre_scope.succeeded = 0
           THEN Starts(Added, LabelOf(L.pre_frame_index))
           ELSE Starts(Added, Spaces(6)) /\ ~Starts(Added, LabelOf(L.pre_frame_index))

\* The first entry a scope renders follows a suppressed call and starts
\* with the continuation indent.
C3_Witness ==
    /\ IsSome(last)
    /\ L.kinds # <<>>
    /\ L.pre_scope.rendered = 0
    /\ L.pre_scope.succeeded = 1
    /\ Starts(Added, Spaces(6))

\* C4: with a null ip, a Short call writes nothing and returns Ok; a Full
\* call is not suppressed and, as the first symbol of its frame, writes the
\* address field after the label.
C4_NullFrame ==
    IsSome(last) /\ L.frame_ip = NULL =>
        /\ format = "Short" => fmt = L.pre_fmt /\ L.res = "Ok"
        /\ format = "Full" /\ L.res = "Ok" =>
            /\ Added # <<>>
            /\ L.pre_symbol_index = 0 =>
                Starts(From(Added, 7), Spaces(HEX_WIDTH - 3) \o <<"0", "x", "0", " ", "-", " ">>)

\* A Full call with a null ip was the first symbol of its frame.
C4_Witness ==
    /\ IsSome(last)
    /\ L.frame_ip = NULL
    /\ format = "Full"
    /\ L.res = "Ok"
    /\ L.pre_symbol_index = 0

\* C5 as stated: a suppressed call changes neither symbol_index nor
\* frame_index.
C5_SuppressedChangesNoCounter ==
    IsSome(last) /\ Suppressed =>
        symbol_index = L.pre_symbol_index /\ frame_index = L.pre_frame_index

\* C5, amended: a suppressed call writes nothing and leaves frame_index as
\* it was, and, returning Ok, advances symbol_index by one.
C5_SuppressedAdvancesSymbolIndex ==
    IsSome(last) /\ Suppressed =>
        /\ Added = <<>>
        /\ frame_index = L.pre_frame_index
        /\ symbol_index = L.pre_symbol_index + 1

\* A call was suppressed in a scope opened after another.
C5_Witness ==
    /\ IsSome(last)
    /\ Suppressed
    /\ L.pre_frame_index = 1

\* C6: an entry that is not suppressed shows, after its lead, the terse name
\* in Short style, the verbose name in Full style and <unknown> without a
\* name or in the reserved style, and then a newline.
C6_NameLine ==
    IsSome(last) /\ L.res = "Ok" /\ ~Suppressed =>
        Starts(From(Added, LeadLen + 1), ExpectedName \o <<"\n">>)

\* A name was given in the reserved style.
C6_Witness ==
    /\ IsSome(last)
    /\ L.res = "Ok"
    /\ format = "__Nonexhaustive"
    /\ IsSome(L.symbol_name)

\* C7: after the name line of an entry comes a location line if and only
\* if filename and line number are both present, and that line shows the
\* column if and only if one is present.
C7_LocationLine ==
    IsSome(last) /\ L.res = "Ok" /\ ~Suppressed =>
        /\ From(Added, LeadLen + Len(ExpectedName) + 2) = ExpectedLocation
        /\ Cardinality({i \in DOMAIN Added : Added[i] = "\n"})
             = IF IsSome(L.filename) /\ IsSome(L.lineno) THEN 2 ELSE 1

\* A location line with a column was written.
C7_Witness ==
    /\ IsSome(last)
    /\ L.res = "Ok"
    /\ ~Suppressed
    /\ IsSome(L.filename) /\ IsSome(L.lineno) /\ IsSome(L.colno)

\* What the call just made writes when no write fails.
WholeEntry ==
    LET ws == print_raw_generic(format, L.pre_frame_index, L.pre_symbol_index,
                                L.frame_ip, L.symbol_name, L.filename,
                                L.lineno, L.colno)
    IN  Flatten([i \in 1..Len(ws) |-> ws[i].text])

\* C8: a call in which a write fails returns the error, and the sink then
\* holds what it held before followed by a proper start of the whole entry:
\* nothing is taken back and nothing is written after the failure.
C8_ErrorStopsTheCall ==
    IsSome(last) /\ L.failAt # 0 =>
        /\ L.res = "Err"
        /\ Starts(fmt, L.pre_fmt)
        /\ Starts(WholeEntry, Added)

\* The path callback failed after the lead, the name line and "at".
C8_Witness ==
    /\ IsSome(last)
    /\ L.failAt # 0
    /\ L.kinds # <<>>
    /\ L.kinds[Len(L.kinds)] = "at"
    /\ Added # <<>>

\* C9: the same calls with the same arguments and the same refused writes,
\* made on a fresh formatter with the same style, end with the same text in
\* the sink and the same frame_index.
C9_ReplayAgrees ==
    run = 2 /\ pos > Len(script) =>
        /\ fmt = Unwrap(first).fmt
        /\ frame_index = Unwrap(first).frame_index

\* A recorded run of four calls that wrote a label was repeated to its end.
C9_Witness ==
    /\ run = 2
    /\ pos > Len(script)
    /\ Len(script) = 4
    /\ labels # <<>>
    /\ frame_index = 1
    /\ fmt # <<>>

\* The hook call just made.
H == Unwrap(hook)

\* C11: new, add_context, finish and frame write nothing to the sink;
\* add_context and finish return Ok and leave frame_index as it was, whenever
\* and however often they are called; the scope frame() returns has
\* symbol_index 0 whatever the scopes before it rendered.
C11_HooksWriteNothing ==
    /\ opened = 0 /\ ~IsSome(hook) /\ run = 1 => fmt = <<>>
    /\ IsSome(hook) =>
        /\ fmt = H.pre_fmt
        /\ frame_index = H.pre_frame_index
        /\ H.res = "Ok"
        /\ H.op = "frame" => open /\ symbol_index = 0

\* A scope was opened after one that rendered two symbols.
C11_Witness ==
    /\ IsSome(hook)
    /\ H.op = "frame"
    /\ earlier = 2
    /\ fmt # <<>>
    /\ frame_index = 1

\* The call just made was symbol() with a symbol that has no name, no
\* filename, no line and no column.
NoData ==
    /\ L.via = "symbol"
    /\ ~IsSome(L.symbol_name) /\ ~IsSome(L.filename)
    /\ ~IsSome(L.lineno) /\ ~IsSome(L.colno)

\* C12 as stated: symbol() writes nothing if the symbol has no name, no
\* filename, no line and no column.
C12_NoDataWritesNothing ==
    IsSome(last) /\ NoData => Added = <<>>

\* C12, amended: symbol() with such a symbol writes nothing only if the
\* call is suppressed by the null-frame rule; otherwise, no write failing,
\* it writes the lead of the entry and the line "<unknown>", and no
\* location line.
C12_NoDataWritesUnknown ==
    IsSome(last) /\ NoData /\ L.res = "Ok" =>
        IF Suppressed
        THEN Added = <<>>
        ELSE /\ Len(Added) = LeadLen + 10
             /\ From(Added, LeadLen + 1)
                  = <<"<", "u", "n", "k", "n", "o", "w", "n", ">", "\n">>

\* symbol() was called in Full style with a null ip and a symbol without
\* data, and wrote an entry.
C12_Witness ==
    /\ IsSome(last)
    /\ NoData
    /\ L.res = "Ok"
    /\ format = "Full"
    /\ L.frame_ip = NULL
    /\ Added # <<>>

\* What print_raw_with_column makes of the sink when called without a
\* column in the state and with the arguments of the call just made, the
\* sink refusing the same write.
WithoutColumn ==
    LET ws == print_raw_generic(format, L.pre_frame_index, L.pre_symbol_index,
                                L.frame_ip, L.symbol_name, L.filename,
                                L.lineno, None)
    IN  IF L.failAt <= Len(ws)
        THEN WriteAll(L.pre_fmt, ws, L.failAt, L.partial)
        ELSE [fmt |-> <<>>, done |-> 0, res |-> "none"]

\* C13: print_raw(ip, name, file, line) returns what
\* print_raw_with_column(ip, name, file, line, None) returns, leaves the
\* same text in the sink and has the same effect on symbol_index.
C13_PrintRawIsWithoutColumn ==
    IsSome(last) /\ L.via = "print_raw" =>
        /\ L.res = WithoutColumn.res
        /\ fmt = WithoutColumn.fmt
        /\ symbol_index = (IF WithoutColumn.res = "Ok" THEN L.pre_symbol_index + 1
                           ELSE L.pre_symbol_index)

\* print_raw wrote an entry with a location line as the second symbol of
\* its frame.
C13_Witness ==
    /\ IsSome(last)
    /\ L.via = "print_raw"
    /\ L.res = "Ok"
    /\ L.pre_symbol_index = 1
    /\ IsSome(L.filename) /\ IsSome(L.lineno)
    /\ "path" \in {L.kinds[i] : i \in DOMAIN L.kinds}

\* The call just made is the one of the example: Full style, a fresh
\* formatter, the first call on its first frame, ip 0x1000, the name
\* "main" and no file, no write failing.
FullExample ==
    /\ IsSome(last)
    /\ format = "Full"
    /\ PointerSize = 8
    /\ opened = 1 /\ closed = 0
    /\ L.pre_fmt = <<>>
    /\ L.pre_scope.succeeded = 0 /\ ~L.pre_scope.failed
    /\ L.frame_ip = 4096
    /\ L.symbol_name = Some(MainName)
    /\ ~IsSome(L.filename)
    /\ L.res = "Ok"

\* C14 as stated: the output of the example is "   0: 0x000000000001000 -
\* main" and a newline, the address padded with zeros.
C14_ZeroPaddedAddress ==
    FullExample =>
        fmt = <<" ", " ", " ", "0", ":", " ">>
              \o <<"0", "x", "0", "0", "0", "0", "0", "0", "0", "0", "0", "0", "0",
                   "1", "0", "0", "0">>
              \o <<" ", "-", " ", "m", "a", "i", "n", "\n">>

\* C14, amended: the output of the example is "   0: ", the address
\* "0x1000" after twelve spaces, which make it 18 wide, " - main" and a
\* newline.
C14_SpacePaddedAddress ==
    FullExample =>
        /\ fmt = <<" ", " ", " ", "0", ":", " ">>
                 \o Spaces(12) \o <<"0", "x", "1", "0", "0", "0">>
                 \o <<" ", "-", " ", "m", "a", "i", "n", "\n">>
        /\ Len(fmt) = 6 + 18 + 3 + 4 + 1

\* The example has been run.
C14_Witness ==
    /\ FullExample
    /\ Len(fmt) = 32

\* The text the call just made added after its first newline.
AfterNameLine ==
    LET nl == CHOOSE i \in DOMAIN Added :
                  Added[i] = "\n" /\ \A j \in 1..(i - 1) : Added[j] # "\n"
    IN  From(Added, nl + 1)

\* C15: a continuation line is 6 spaces, in Full style HEX_WIDTH + 3
\* further spaces and in Short style nothing more, and then the name; a
\* location line is, in Full style only, HEX_WIDTH spaces, then in every
\* style 13 spaces and "at ", the path, ":" and the line number; HEX_WIDTH
\* is 2 + 2 * the pointer size.
C15_WhitespacePrefixes ==
    IsSome(last) /\ L.res = "Ok" /\ ~Suppressed =>
        /\ HEX_WIDTH = 2 + 2 * PointerSize
        /\ L.pre_symbol_index > 0 =>
              Starts(Added, Spaces(6)
                            \o (IF format = "Full" THEN Spaces(2 + 2 * PointerSize + 3)
                                ELSE <<>>)
                            \o ExpectedName \o <<"\n">>)
        /\ IsSome(L.filename) /\ IsSome(L.lineno) =>
              Starts(AfterNameLine,
                     (IF format = "Full" THEN Spaces(2 + 2 * PointerSize) ELSE <<>>)
                     \o Spaces(13) \o <<"a", "t", " ">>
                     \o Unwrap(L.filename) \o <<":">> \o Decimal(Unwrap(L.lineno)))

\* A Full continuation entry with a location line was written.
C15_Witness ==
    /\ IsSome(last)
    /\ L.res = "Ok"
    /\ format = "Full"
    /\ L.pre_symbol_index = 1
    /\ IsSome(L.filename) /\ IsSome(L.lineno)
    /\ Len(Added) > 27 + 18 + 16

\* C16: symbol_index of the open scope is the number of render calls on it
\* that returned Ok, suppressed calls among them; a call that returns Err
\* leaves it as it was, and the call after a failed first call writes the
\* numeric label again.
C16_SymbolIndexCountsSuccesses ==
    /\ open => symbol_index = scope.succeeded
    /\ IsSome(last) /\ L.res = "Err" => symbol_index = L.pre_symbol_index
    /\ IsSome(last) /\ L.pre_scope.failed /\ L.pre_scope.succeeded = 0
          /\ L.kinds # <<>> =>
            Starts(Added, LabelOf(L.pre_frame_index))

\* The first call on a scope failed after writing the label, and the next
\* call wrote the label again and returned Ok.
C16_Witness ==
    /\ IsSome(last)
    /\ L.pre_scope.failed
    /\ L.pre_scope.succeeded = 0
    /\ L.res = "Ok"
    /\ Starts(L.pre_fmt, LabelOf(0))
    /\ Starts(Added, LabelOf(0))
    /\ symbol_index = 1

\* Where the name starts in the text of an entry: the lead holds digits,
\* "x", ":", "-" and spaces, none of which a name here starts with.
NameFirsts ==
    {"<"} \cup {n.terse[1] : n \in SymbolNames} \cup {n.verbose[1] : n \in SymbolNames}
NameStart(text) ==
    CHOOSE i \in DOMAIN text :
        text[i] \in NameFirsts /\ \A j \in 1..(i - 1) : text[j] \notin NameFirsts

\* The call just made wrote the second entry of a scope whose first call
\* wrote the first one, under the label.
SecondEntry ==
    /\ IsSome(last)
    /\ L.res = "Ok"
    /\ L.kinds # <<>>
    /\ L.pre_symbol_index = 1
    /\ L.pre_scope.rendered = 1
    /\ ~L.pre_scope.failed
\* The lengths of what is written before the name in the first entry of
\* the scope and in the entry just written.
FirstLead == NameStart(From(L.pre_fmt, L.pre_scope.at + 1)) - 1
ContinuationLead == NameStart(Added) - 1

\* C17: the lead of a continuation entry is 6 long in Short style and
\* 6 + HEX_WIDTH + 3 long in Full style; for a frame_index below 10000 the
\* lead of the first entry of the frame is as long, for one of 10000 or
\* more the label is wider than 4 and the lead of the first entry longer.
C17_LeadsAlign ==
    SecondEntry =>
        /\ format = "Short" => ContinuationLead = 6
        /\ format = "Full" => ContinuationLead = 6 + HEX_WIDTH + 3
        /\ L.pre_frame_index < 10000 => FirstLead = ContinuationLead
        /\ L.pre_frame_index >= 10000 =>
            /\ FirstLead # ContinuationLead
            /\ FirstLead - ContinuationLead = Len(Decimal(L.pre_frame_index)) - 4
            /\ Len(Decimal(L.pre_frame_index)) > 4

\* Two entries were written in frame 10000 in Full style, the leads 28 and
\* 27 long.
C17_Witness ==
    /\ SecondEntry
    /\ format = "Full"
    /\ L.pre_frame_index = 10000
    /\ FirstLead = 28
    /\ ContinuationLead = 27

\* C18: in the reserved style no call is suppressed, a null ip included;
\* the lead is the label or the indent alone, without address or padding;
\* the name line is <unknown> even if a name is given; the location line
\* starts with the 13 spaces, without padding.
C18_ReservedStyle ==
    IsSome(last) /\ format = "__Nonexhaustive" /\ L.res = "Ok" =>
        /\ Added # <<>>
        /\ Added = (IF L.pre_symbol_index = 0 THEN LabelOf(L.pre_frame_index)
                    ELSE Spaces(6))
                   \o <<"<", "u", "n", "k", "n", "o", "w", "n", ">", "\n">>
                   \o (IF IsSome(L.filename) /\ IsSome(L.lineno)
                       THEN Spaces(13) \o <<"a", "t", " ">> \o Unwrap(L.filename)
                            \o <<":">> \o Decimal(Unwrap(L.lineno))
                            \o (IF IsSome(L.colno)
                                THEN <<":">> \o Decimal(Unwrap(L.colno)) ELSE <<>>)
                            \o <<"\n">>
                       ELSE <<>>)
        /\ \A i \in DOMAIN L.kinds : L.kinds[i] \notin {"addr", "addrpad", "filepad"}

\* An entry with a null ip, a name and a location was written in the
\* reserved style as the first one of its frame.
C18_Witness ==
    /\ IsSome(last)
    /\ format = "__Nonexhaustive"
    /\ L.res = "Ok"
    /\ L.frame_ip = NULL
    /\ IsSome(L.symbol_name)
    /\ IsSome(L.filename) /\ IsSome(L.lineno)
    /\ L.pre_symbol_index = 0
    /\ Len(Added) > 16

\* The newlines of a text, and a text made of whole lines.
Newlines(text) == Cardinality({i \in DOMAIN text : text[i] = "\n"})
WholeLines(text) == text = <<>> \/ text[Len(text)] = "\n"

\* C19: names and paths holding no newline, the sink is empty or ends with
\* a newline as long as every render call returned Ok, and a render call
\* that returns Ok adds no text, one line (the name line) or two lines
\* (name line and location line), each ended by a newline.
C19_WholeLines ==
    /\ clean => WholeLines(fmt)
    /\ IsSome(last) /\ L.res = "Ok" /\ Newlines(ExpectedName) = 0
          /\ (IsSome(L.filename) => Newlines(print_path(Unwrap(L.filename))) = 0) =>
            /\ WholeLines(Added)
            /\ Newlines(Added) \in {0, 1, 2}
            /\ Newlines(Added) = 0 <=> Added = <<>>
            /\ Newlines(Added) = 2 <=>
                  ~Suppressed /\ IsSome(L.filename) /\ IsSome(L.lineno)

\* Every call returned Ok and the last one added a second two-line entry
\* to the sink.
C19_Witness ==
    /\ clean
    /\ IsSome(last)
    /\ Newlines(Added) = 2
    /\ Newlines(fmt) = 4
    /\ WholeLines(fmt)

====
